---- MODULE Spec2Model ----
(***************************************************************************)
(* State-machine model of tmrl/custom/custom_algorithms.py:                *)
(* SpinupSacAgent and REDQSACAgent (construction and train()).             *)
(*                                                                         *)
(* One agent is modelled.  Its dataclass fields are drawn in Init, the     *)
(* action PostInit is __post_init__, Train(b) is the entry of train() and  *)
(* the remaining actions are the statements of train() in source order     *)
(* (one action per statement that changes state, one iteration of a loop   *)
(* per step), so that the position of a call (pc) and an exception raised  *)
(* between any two statements are states of the model.                     *)
(*                                                                         *)
(* The networks and the batch are external to the file: a parameter tensor *)
(* is one number, a batch is an index b, and the losses and gradients the  *)
(* numeric backend computes for it are the operators Loss* and Grad*.      *)
(* Numbers are fixed point with Unit = 1.0 and round to nearest.  The      *)
(* optimizers are Adam with torch's default betas; the three learning      *)
(* rates (dataclass fields) are taken as 1.0.                              *)
(***************************************************************************)
EXTENDS Integers, Sequences, FiniteSets

\* ---------------------------------------------------------------- bounds
MaxCalls == 3      \* train() calls per behaviour
MaxN == 2          \* largest REDQ ensemble size n
MaxK == 2          \* largest q_updates_per_policy_update
MaxBatch == 1      \* distinct batches
MaxFailures == 1   \* exceptions raised by the numeric backend per behaviour

\* ------------------------------------------------------------ fixed point
Unit == 10 ^ 3     \* 1.0
MScale == 10 ^ 5   \* scale of Adam's first moment and of beta1 ^ t
VScale == 10 ^ 6   \* scale of Adam's second moment and of beta2 ^ t

RoundDiv(a, b) == (2 * a + b) \div (2 * b)

None == << >>
Some(v) == << v >>

\* torch.exp: e^k * e^r with k the integer part, e^r by its power series
RECURSIVE ExpSeries(_, _, _)
ExpSeries(r, k, term) ==
    IF term = 0 THEN 0
    ELSE term + ExpSeries(r, k + 1, (term * r) \div (k * Unit))
ExpFrac(r) == RoundDiv(ExpSeries(r, 1, VScale), Unit)
RECURSIVE EPow(_)
EPow(k) ==
    IF k = 0 THEN Unit
    ELSE LET x == EPow(k - 1)
         IN  2 * x + (x * 718) \div 1000 + (x * 282) \div 1000000
RECURSIVE EInvPow(_)
EInvPow(k) ==
    IF k = 0 THEN VScale
    ELSE LET x == EInvPow(k - 1)
         IN  (x * 367) \div 1000 + (x * 879) \div 1000000
Exp(x) ==
    LET k == x \div Unit
        f == ExpFrac(x - k * Unit)
    IN  IF k >= 0 THEN RoundDiv(EPow(k) * f, Unit)
        ELSE RoundDiv(EInvPow(0 - k) * f, VScale)

\* torch.log, as the inverse of Exp (middle of the values Exp maps to a)
RECURSIVE LeastExp(_, _, _)
LeastExp(a, lo, hi) ==
    IF lo >= hi THEN lo
    ELSE LET mid == (lo + hi) \div 2
         IN  IF Exp(mid) >= a THEN LeastExp(a, lo, mid)
             ELSE LeastExp(a, mid + 1, hi)
Log(a) ==
    LET lo == LeastExp(a, 0 - 8 * Unit, 5 * Unit)
        hi == LeastExp(a + 1, 0 - 8 * Unit, 5 * Unit) - 1
    IN  (lo + hi) \div 2

RECURSIVE Newton(_, _)
Newton(x, r) ==
    LET r2 == (r + x \div r) \div 2
    IN  IF r2 >= r THEN r ELSE Newton(x, r2)
ISqrt(x) == IF x <= 0 THEN 0 ELSE Newton(x, x)

\* polyak coefficient in halves: 0, 1/2, 1
Polyaks == {0, 1, 2}
\* alpha: 0.2 (the default)
Alphas == {Unit \div 5}

\* The dataclass fields (the generated __init__ stores them unchecked).
\* SAC has two critics q1, q2 and uses both targets; it has no UTD counter.
\* REDQ: for each n the subset sizes m = n - 1 (if positive), n and n + 1.
Configs ==
    {[kind |-> "SAC", learn_entropy_coef |-> l, polyak |-> p, alpha |-> a,
      n |-> 2, m |-> 2, q_updates_per_policy_update |-> 1] :
        l \in BOOLEAN, p \in Polyaks, a \in Alphas}
    \cup
    {[kind |-> "REDQ", learn_entropy_coef |-> l, polyak |-> p, alpha |-> a,
      n |-> nm[1], m |-> nm[2], q_updates_per_policy_update |-> k] :
        l \in BOOLEAN, p \in Polyaks, a \in Alphas,
        nm \in {x \in (1 .. MaxN) \X (1 .. MaxN + 1) :
                     x[2] \in (x[1] - 1) .. (x[1] + 1)},
        k \in 1 .. MaxK}

VARIABLES
    cfg,            \* the dataclass fields
    pc,             \* "new", "idle" or the statement train() is at
    model,          \* live parameters [actor, qs]
    model_target,   \* target parameters [actor, qs]
    log_alpha,      \* self.log_alpha, None when never assigned
    self_alpha_t,   \* self.alpha_t, None when never assigned
    grad,           \* .grad of the live parameters and of log_alpha
    opt,            \* Adam state of each optimized parameter
    requires_grad,  \* requires_grad of each live critic
    i_update,       \* self.i_update
    self_loss_pi,   \* self.loss_pi (REDQ)
    locals,         \* local variables of the running train() call
    ret,            \* what the last call returned, None if it raised
    error,          \* the exception the last call raised, "" if none
    hist            \* history: call count, entry snapshot, statements completed

vars == << cfg, pc, model, model_target, log_alpha, self_alpha_t, grad, opt,
           requires_grad, i_update, self_loss_pi, locals, ret, error, hist >>

Critics == 0 .. (cfg.n - 1)

\* j is the index of the running for loop, mul_done says that the mul_ of
\* the current polyak iteration has run
NoLocals ==
    [batch |-> 0, update_policy |-> FALSE, pi |-> FALSE, alpha_t |-> None,
     loss_alpha |-> None, loss_q |-> None, loss_pi |-> None,
     sample_idxs |-> << >>, j |-> 0, mul_done |-> FALSE]

\* --------------------------------------------------------- numeric backend
\* Results of the external networks and autograd for batch b.
LossAlpha(b) == b
LossQ(b) == b + 1
LossPi(b) == b + 2
Sign(x) == IF x % 2 = 0 THEN 1 ELSE 0 - 1
GradAlpha(b) == Sign(b)
GradQ(b, i) == Sign(b + i)
GradActor(b) == Sign(b + 1)
\* what the actor loss adds to a critic's .grad if the critic tracks gradients
GradQFromPi(b, i) == 1

\* backward() accumulates into .grad; zero_grad() resets it to None
Accumulate(old, g) == IF old = None THEN Some(g) ELSE Some(old[1] + g)

\* ------------------------------------------------------------------- Adam
\* torch.optim.Adam, betas (0.9, 0.999); eps = 1e-8 is below the resolution
\* and only makes the step 0 when the second moment is 0.
LR == Unit
NoState == [step |-> 0, exp_avg |-> 0, exp_avg_sq |-> 0]

RECURSIVE BetaPow(_, _, _, _)
BetaPow(num, den, scale, t) ==
    IF t = 0 THEN scale
    ELSE RoundDiv(num * BetaPow(num, den, scale, t - 1), den)

AdamState(g, st) ==
    [step |-> st.step + 1,
     exp_avg |-> RoundDiv(9 * st.exp_avg + g * MScale, 10),
     exp_avg_sq |-> RoundDiv(999 * st.exp_avg_sq + g * g * VScale, 1000)]

AdamDelta(st) ==
    LET bc1 == MScale - BetaPow(9, 10, MScale, st.step)
        bc2 == VScale - BetaPow(999, 1000, VScale, st.step)
        mhat == RoundDiv(st.exp_avg * Unit, bc1)
        vhat == RoundDiv(st.exp_avg_sq * Unit, bc2)
        denom == ISqrt(vhat * Unit)
    IN  IF denom = 0 THEN 0 ELSE RoundDiv(LR * mhat, denom)

\* One optimizer step on a parameter with value p, .grad g and Adam state
\* st: the new [p, st].  A parameter whose .grad is None is skipped.
OptStep(p, g, st) ==
    IF g = None THEN [p |-> p, st |-> st]
    ELSE LET st2 == AdamState(g[1], st)
         IN  [p |-> p - AdamDelta(st2), st |-> st2]

\* p_targ.data.mul_(polyak)
PolyakMulWrongWeight(t) == RoundDiv((2 - cfg.polyak) * t, 2)
PolyakMul(t) == RoundDiv(cfg.polyak * t, 2)
\* p_targ.data.add_((1 - polyak) * p.data)
PolyakAdd(t, p) == t + RoundDiv((2 - cfg.polyak) * p, 2)

\* model.parameters() / model_target.parameters(): the actor, then the critics
NumParams == cfg.n + 1
GetParam(net, j) == IF j = 0 THEN net.actor ELSE net.qs[j - 1]
SetParam(net, j, v) ==
    IF j = 0 THEN [net EXCEPT !.actor = v] ELSE [net EXCEPT !.qs[j - 1] = v]

\* ------------------------------------------------------------ control flow
\* The statements of SpinupSacAgent.train in source order.
SacOrderPolyakEarly ==
    << "unpack", "actor_fwd", "alpha_loss", "alpha_zero_grad",
       "alpha_backward", "alpha_step", "q_loss", "q_zero_grad", "q_backward",
       "q_step", "polyak", "freeze", "pi_loss", "pi_zero_grad", "pi_backward",
       "pi_step", "unfreeze", "ret" >>
SacOrderAlphaLast ==
    << "unpack", "actor_fwd", "alpha_loss", "q_loss", "q_zero_grad",
       "q_backward", "q_step", "freeze", "pi_loss", "pi_zero_grad",
       "pi_backward", "pi_step", "unfreeze", "alpha_zero_grad",
       "alpha_backward", "alpha_step", "polyak", "ret" >>
SacOrder ==
    << "unpack", "actor_fwd", "alpha_loss", "alpha_zero_grad",
       "alpha_backward", "alpha_step", "q_loss", "q_zero_grad", "q_backward",
       "q_step", "freeze", "pi_loss", "pi_zero_grad", "pi_backward",
       "pi_step", "unfreeze", "polyak", "ret" >>

\* The statements of REDQSACAgent.train in source order; those under
\* "if update_policy:" are left out of a call that does not update.
RedqOrderCriticFirst(update_policy) ==
    IF update_policy
    THEN << "unpack", "actor_fwd", "alpha_loss", "alpha_zero_grad",
            "alpha_backward", "alpha_step", "sample", "q_loss", "q_zero_grad",
            "q_backward", "q_step", "freeze", "pi_loss", "pi_zero_grad",
            "pi_backward", "unfreeze", "pi_step", "polyak", "store_loss_pi",
            "ret" >>
    ELSE << "unpack", "alpha_loss", "alpha_zero_grad", "alpha_backward",
            "alpha_step", "sample", "q_loss", "q_zero_grad", "q_backward", "q_step",
            "polyak", "store_loss_pi", "ret" >>
RedqOrder(update_policy) ==
    IF update_policy
    THEN << "unpack", "actor_fwd", "alpha_loss", "alpha_zero_grad",
            "alpha_backward", "alpha_step", "sample", "q_loss", "q_zero_grad",
            "q_backward", "freeze", "pi_loss", "pi_zero_grad", "pi_backward",
            "unfreeze", "q_step", "pi_step", "polyak", "store_loss_pi",
            "ret" >>
    ELSE << "unpack", "alpha_loss", "alpha_zero_grad", "alpha_backward",
            "alpha_step", "sample", "q_loss", "q_zero_grad", "q_backward", "q_step",
            "polyak", "store_loss_pi", "ret" >>

\* the condition of the branch that computes alpha_t and loss_alpha from
\* log_alpha: SAC "if self.learn_entropy_coef", REDQ "... and update_policy"
LearnsNow(update_policy) ==
    IF cfg.kind = "SAC"
    THEN cfg.learn_entropy_coef
    ELSE cfg.learn_entropy_coef /\ update_policy

\* "if loss_alpha is not None:" guards the three entropy-optimizer statements
AlphaOps == {"alpha_zero_grad", "alpha_backward", "alpha_step"}

Order(update_policy) ==
    LET raw == IF cfg.kind = "SAC" THEN SacOrder ELSE RedqOrder(update_policy)
        Runs(op) == op \notin AlphaOps \/ LearnsNow(update_policy)
    IN  SelectSeq(raw, Runs)

NextOp(op) ==
    LET o == Order(locals.update_policy)
        i == CHOOSE k \in 1 .. Len(o) : o[k] = op
    IN  IF i = Len(o) THEN "idle" ELSE o[i + 1]

\* update_policy = (self.i_update % self.q_updates_per_policy_update == 0)
UpdatePolicy(i) == i % cfg.q_updates_per_policy_update = 0

\* np.random.choice(n, m, replace=False): m distinct indices, in any order
SampleChoicesWithReplacement(n, m) == [1 .. m -> 0 .. (n - 1)]
SampleChoices(n, m) ==
    {s \in [1 .. m -> 0 .. (n - 1)] :
        \A i, k \in 1 .. m : i # k => s[i] # s[k]}

\* if update_policy: self.loss_pi = loss_pi.detach()
StoredLossPiReset(update_policy, old, new) ==
    IF update_policy THEN new ELSE Some(0)
StoredLossPi(update_policy, old, new) == IF update_policy THEN new ELSE old

\* ------------------------------------------------------------------ state
Init ==
    /\ cfg \in Configs
    /\ pc = "new"
    /\ model = [actor |-> 0, qs |-> [i \in Critics |-> 0]]
    /\ model_target = [actor |-> 0, qs |-> [i \in Critics |-> 0]]
    /\ log_alpha = None
    /\ self_alpha_t = None
    /\ grad = [actor |-> None, qs |-> [i \in Critics |-> None],
               log_alpha |-> None]
    /\ opt = [actor |-> NoState, qs |-> [i \in Critics |-> NoState],
              log_alpha |-> NoState]
    /\ requires_grad = [i \in Critics |-> TRUE]
    /\ i_update = 0
    /\ self_loss_pi = None
    /\ locals = NoLocals
    /\ ret = None
    /\ error = ""
    /\ hist = [calls |-> 0, failures |-> 0, done |-> {},
               target_entry |-> model_target, log_alpha_entry |-> None,
               last_update_loss |-> None, failed_op |-> ""]

\* __post_init__ (both agents): no field is validated.
PostInit ==
    /\ pc = "new"
    /\ pc' = "idle"
    /\ model' = [actor |-> 0, qs |-> [i \in Critics |-> (i + 1) * Unit]]
    /\ model_target' = model'
    /\ requires_grad' = [i \in Critics |-> TRUE]
    /\ self_loss_pi' = IF cfg.kind = "REDQ" THEN Some(0) ELSE None
    /\ i_update' = 0
    /\ IF cfg.learn_entropy_coef
       THEN log_alpha' = Some(Log(cfg.alpha)) /\ self_alpha_t' = None
       ELSE log_alpha' = None /\ self_alpha_t' = Some(cfg.alpha)
    /\ hist' = [hist EXCEPT !.target_entry = model_target']
    /\ UNCHANGED << cfg, grad, opt, locals, ret, error >>

\* An exception leaves train(): nothing catches it, the locals are dropped.
Abort(err) ==
    /\ pc' = "idle"
    /\ error' = err
    /\ ret' = None
    /\ locals' = NoLocals
    /\ hist' = [hist EXCEPT !.failed_op = pc,
                            !.failures = IF err = "backend" THEN @ + 1 ELSE @]
    /\ UNCHANGED << cfg, model, model_target, log_alpha, self_alpha_t, grad,
                    opt, requires_grad, i_update, self_loss_pi >>

\* Statement op completed: on to the next one.
Step(op) ==
    /\ pc' = NextOp(op)
    /\ hist' = [hist EXCEPT !.done = @ \cup {op}]

\* One iteration of the for loop op over count items: the loop index moves
\* on, and after the last item the loop is completed.
Loop(op, count) ==
    IF locals.j + 1 >= count
    THEN /\ locals' = [locals EXCEPT !.j = 0, !.mul_done = FALSE]
         /\ Step(op)
    ELSE /\ locals' = [locals EXCEPT !.j = @ + 1, !.mul_done = FALSE]
         /\ UNCHANGED << pc, hist >>

\* entry of train(batch); REDQ: self.i_update += 1 and update_policy
Train(b) ==
    /\ pc = "idle"
    /\ hist.calls < MaxCalls
    /\ i_update' = IF cfg.kind = "REDQ" THEN i_update + 1 ELSE i_update
    /\ locals' = [NoLocals EXCEPT
                    !.batch = b,
                    !.update_policy = IF cfg.kind = "REDQ"
                                      THEN UpdatePolicy(i_update')
                                      ELSE TRUE]
    /\ pc' = Order(locals'.update_policy)[1]
    /\ ret' = None
    /\ error' = ""
    /\ hist' = [hist EXCEPT !.calls = @ + 1, !.done = {},
                            !.target_entry = model_target,
                            !.log_alpha_entry = log_alpha,
                            !.failed_op = ""]
    /\ UNCHANGED << cfg, model, model_target, log_alpha, self_alpha_t, grad,
                    opt, requires_grad, self_loss_pi >>

\* ------------------------------------------------- the steps of train()
\* o, a, r, o2, d = batch
Unpack ==
    /\ pc = "unpack"
    /\ Step("unpack")
    /\ UNCHANGED << cfg, model, model_target, log_alpha, self_alpha_t, grad,
                    opt, requires_grad, i_update, self_loss_pi, locals, ret,
                    error >>

\* pi, logp_pi = self.model.actor(o)
ActorFwd ==
    /\ pc = "actor_fwd"
    /\ locals' = [locals EXCEPT !.pi = TRUE]
    /\ Step("actor_fwd")
    /\ UNCHANGED << cfg, model, model_target, log_alpha, self_alpha_t, grad,
                    opt, requires_grad, i_update, self_loss_pi, ret, error >>

\* alpha_t and loss_alpha; the else branch reads the attribute self.alpha_t,
\* which __post_init__ assigns only when the coefficient is not learned.
AlphaLoss ==
    /\ pc = "alpha_loss"
    /\ IF LearnsNow(locals.update_policy)
       THEN /\ locals' = [locals EXCEPT
                            !.alpha_t = Some(Exp(log_alpha[1])),
                            !.loss_alpha = Some(LossAlpha(locals.batch))]
            /\ Step("alpha_loss")
            /\ UNCHANGED << cfg, model, model_target, log_alpha, self_alpha_t,
                            grad, opt, requires_grad, i_update, self_loss_pi,
                            ret, error >>
       ELSE IF self_alpha_t = None
            THEN Abort("AttributeError")
            ELSE /\ locals' = [locals EXCEPT !.alpha_t = self_alpha_t]
                 /\ Step("alpha_loss")
                 /\ UNCHANGED << cfg, model, model_target, log_alpha,
                                 self_alpha_t, grad, opt, requires_grad,
                                 i_update, self_loss_pi, ret, error >>

\* self.alpha_optimizer.zero_grad()
AlphaZeroGrad ==
    /\ pc = "alpha_zero_grad"
    /\ grad' = [grad EXCEPT !.log_alpha = None]
    /\ Step("alpha_zero_grad")
    /\ UNCHANGED << cfg, model, model_target, log_alpha, self_alpha_t, opt,
                    requires_grad, i_update, self_loss_pi, locals, ret,
                    error >>

\* loss_alpha.backward()
AlphaBackward ==
    /\ pc = "alpha_backward"
    /\ grad' = [grad EXCEPT
                  !.log_alpha = Accumulate(@, GradAlpha(locals.batch))]
    /\ Step("alpha_backward")
    /\ UNCHANGED << cfg, model, model_target, log_alpha, self_alpha_t, opt,
                    requires_grad, i_update, self_loss_pi, locals, ret,
                    error >>

\* self.alpha_optimizer.step()
AlphaStep ==
    /\ pc = "alpha_step"
    /\ LET r == OptStep(log_alpha[1], grad.log_alpha, opt.log_alpha)
       IN  /\ log_alpha' = Some(r.p)
           /\ opt' = [opt EXCEPT !.log_alpha = r.st]
    /\ Step("alpha_step")
    /\ UNCHANGED << cfg, model, model_target, self_alpha_t, grad,
                    requires_grad, i_update, self_loss_pi, locals, ret,
                    error >>

\* REDQ: a2, logp_a2 = self.model.actor(o2) and the draw s of sample_idxs
SampleWith(s) ==
    /\ pc = "sample"
    /\ s \in SampleChoices(cfg.n, cfg.m)
    /\ locals' = [locals EXCEPT !.sample_idxs = s]
    /\ Step("sample")
    /\ UNCHANGED << cfg, model, model_target, log_alpha, self_alpha_t, grad,
                    opt, requires_grad, i_update, self_loss_pi, ret, error >>

\* np.random.choice raises ValueError when m > n
Sample ==
    /\ pc = "sample"
    /\ IF cfg.m > cfg.n
       THEN Abort("ValueError")
       ELSE \E s \in SampleChoices(cfg.n, cfg.m) : SampleWith(s)

\* Bellman backup from alpha_t and the target critics (SAC: q1 and q2, REDQ:
\* those of sample_idxs, which is not read again), then loss_q
QLoss ==
    /\ pc = "q_loss"
    /\ locals.alpha_t # None
    /\ locals' = [locals EXCEPT !.sample_idxs = << >>,
                                !.loss_q = Some(LossQ(locals.batch))]
    /\ Step("q_loss")
    /\ UNCHANGED << cfg, model, model_target, log_alpha, self_alpha_t, grad,
                    opt, requires_grad, i_update, self_loss_pi, ret, error >>

\* SAC: self.q_optimizer.zero_grad(), one optimizer over q1 and q2;
\* REDQ: for q in self.q_optimizer_list: q.zero_grad()
QZeroGrad ==
    /\ pc = "q_zero_grad"
    /\ IF cfg.kind = "SAC"
       THEN /\ grad' = [grad EXCEPT !.qs = [i \in Critics |-> None]]
            /\ Step("q_zero_grad")
            /\ UNCHANGED locals
       ELSE /\ grad' = [grad EXCEPT !.qs[locals.j] = None]
            /\ Loop("q_zero_grad", cfg.n)
    /\ UNCHANGED << cfg, model, model_target, log_alpha, self_alpha_t, opt,
                    requires_grad, i_update, self_loss_pi, ret, error >>

\* loss_q.backward(); autograd raises RuntimeError when no input of loss_q
\* tracks gradients
QBackward ==
    /\ pc = "q_backward"
    /\ IF \A i \in Critics : ~requires_grad[i]
       THEN Abort("RuntimeError")
       ELSE /\ grad' = [grad EXCEPT
                          !.qs = [i \in Critics |->
                                    IF requires_grad[i]
                                    THEN Accumulate(grad.qs[i],
                                                    GradQ(locals.batch, i))
                                    ELSE grad.qs[i]]]
            /\ Step("q_backward")
            /\ UNCHANGED << cfg, model, model_target, log_alpha, self_alpha_t,
                            opt, requires_grad, i_update, self_loss_pi,
                            locals, ret, error >>

\* SAC: self.q_optimizer.step(), one optimizer over q1 and q2;
\* REDQ: for q_optimizer in self.q_optimizer_list: q_optimizer.step()
QStep ==
    /\ pc = "q_step"
    /\ LET r(i) == OptStep(model.qs[i], grad.qs[i], opt.qs[i])
       IN  IF cfg.kind = "SAC"
           THEN /\ model' = [model EXCEPT !.qs = [i \in Critics |-> r(i).p]]
                /\ opt' = [opt EXCEPT !.qs = [i \in Critics |-> r(i).st]]
                /\ Step("q_step")
                /\ UNCHANGED locals
           ELSE /\ model' = [model EXCEPT !.qs[locals.j] = r(locals.j).p]
                /\ opt' = [opt EXCEPT !.qs[locals.j] = r(locals.j).st]
                /\ Loop("q_step", cfg.n)
    /\ UNCHANGED << cfg, model_target, log_alpha, self_alpha_t, grad,
                    requires_grad, i_update, self_loss_pi, ret, error >>

\* q.requires_grad_(False), one live critic per statement / iteration
Freeze ==
    /\ pc = "freeze"
    /\ requires_grad' = [requires_grad EXCEPT ![locals.j] = FALSE]
    /\ Loop("freeze", cfg.n)
    /\ UNCHANGED << cfg, model, model_target, log_alpha, self_alpha_t, grad,
                    opt, i_update, self_loss_pi, ret, error >>

\* the live critics at (o, pi), loss_pi from alpha_t and logp_pi
PiLoss ==
    /\ pc = "pi_loss"
    /\ locals.pi
    /\ locals.alpha_t # None
    /\ locals' = [locals EXCEPT !.loss_pi = Some(LossPi(locals.batch))]
    /\ Step("pi_loss")
    /\ UNCHANGED << cfg, model, model_target, log_alpha, self_alpha_t, grad,
                    opt, requires_grad, i_update, self_loss_pi, ret, error >>

\* self.pi_optimizer.zero_grad()
PiZeroGrad ==
    /\ pc = "pi_zero_grad"
    /\ grad' = [grad EXCEPT !.actor = None]
    /\ Step("pi_zero_grad")
    /\ UNCHANGED << cfg, model, model_target, log_alpha, self_alpha_t, opt,
                    requires_grad, i_update, self_loss_pi, locals, ret,
                    error >>

\* loss_pi.backward(): accumulates into the .grad of every parameter of its
\* graph that tracks gradients
PiBackward ==
    /\ pc = "pi_backward"
    /\ grad' = [grad EXCEPT
                  !.actor = Accumulate(@, GradActor(locals.batch)),
                  !.qs = [i \in Critics |->
                            IF requires_grad[i]
                            THEN Accumulate(grad.qs[i],
                                            GradQFromPi(locals.batch, i))
                            ELSE grad.qs[i]]]
    /\ Step("pi_backward")
    /\ UNCHANGED << cfg, model, model_target, log_alpha, self_alpha_t, opt,
                    requires_grad, i_update, self_loss_pi, locals, ret,
                    error >>

\* self.pi_optimizer.step()
PiStep ==
    /\ pc = "pi_step"
    /\ LET r == OptStep(model.actor, grad.actor, opt.actor)
       IN  /\ model' = [model EXCEPT !.actor = r.p]
           /\ opt' = [opt EXCEPT !.actor = r.st]
    /\ Step("pi_step")
    /\ UNCHANGED << cfg, model_target, log_alpha, self_alpha_t, grad,
                    requires_grad, i_update, self_loss_pi, locals, ret,
                    error >>

\* q.requires_grad_(True), one live critic per statement / iteration
Unfreeze ==
    /\ pc = "unfreeze"
    /\ requires_grad' = [requires_grad EXCEPT ![locals.j] = TRUE]
    /\ Loop("unfreeze", cfg.n)
    /\ UNCHANGED << cfg, model, model_target, log_alpha, self_alpha_t, grad,
                    opt, i_update, self_loss_pi, ret, error >>

\* the polyak loop over zip(model.parameters(), model_target.parameters()):
\* first statement of an iteration
PolyakMulStep ==
    /\ pc = "polyak"
    /\ ~locals.mul_done
    /\ model_target' =
         SetParam(model_target, locals.j,
                  PolyakMul(GetParam(model_target, locals.j)))
    /\ locals' = [locals EXCEPT !.mul_done = TRUE]
    /\ UNCHANGED << cfg, pc, model, log_alpha, self_alpha_t, grad, opt,
                    requires_grad, i_update, self_loss_pi, ret, error, hist >>

\* second statement of an iteration of the polyak loop
PolyakAddStep ==
    /\ pc = "polyak"
    /\ locals.mul_done
    /\ model_target' =
         SetParam(model_target, locals.j,
                  PolyakAdd(GetParam(model_target, locals.j),
                            GetParam(model, locals.j)))
    /\ Loop("polyak", NumParams)
    /\ UNCHANGED << cfg, model, log_alpha, self_alpha_t, grad, opt,
                    requires_grad, i_update, self_loss_pi, ret, error >>

\* REDQ: if update_policy: self.loss_pi = loss_pi.detach()
StoreLossPi ==
    /\ pc = "store_loss_pi"
    /\ self_loss_pi' =
         StoredLossPi(locals.update_policy, self_loss_pi, locals.loss_pi)
    /\ Step("store_loss_pi")
    /\ UNCHANGED << cfg, model, model_target, log_alpha, self_alpha_t, grad,
                    opt, requires_grad, i_update, locals, ret, error >>

\* the returned dict (tensors are None or Some(value), entropy_coef is the
\* number alpha_t.item())
RetDict(loss_actor) ==
    IF cfg.learn_entropy_coef
    THEN [loss_actor |-> loss_actor, loss_critic |-> locals.loss_q,
          loss_entropy_coef |-> locals.loss_alpha,
          entropy_coef |-> locals.alpha_t[1]]
    ELSE [loss_actor |-> loss_actor, loss_critic |-> locals.loss_q]

\* build ret_dict and return it; loss_alpha.detach() raises on None
Ret ==
    /\ pc = "ret"
    /\ IF cfg.learn_entropy_coef /\ locals.loss_alpha = None
       THEN Abort("AttributeError")
       ELSE /\ ret' = Some(RetDict(IF cfg.kind = "REDQ" THEN self_loss_pi
                                   ELSE locals.loss_pi))
            /\ error' = ""
            /\ pc' = NextOp("ret")
            /\ hist' = [hist EXCEPT
                          !.done = @ \cup {"ret"},
                          !.last_update_loss =
                              IF locals.update_policy
                              THEN ret'[1].loss_actor ELSE @]
            /\ locals' = NoLocals
            /\ UNCHANGED << cfg, model, model_target, log_alpha, self_alpha_t,
                            grad, opt, requires_grad, i_update,
                            self_loss_pi >>

\* The statement (or loop iteration) train() is at raises: malformed batch,
\* shape mismatch, non-finite values, out of memory, interrupt.  The raising
\* statement has no effect; what the statements and iterations before it did
\* to parameters, .grad, optimizer state and requires_grad stays.
Raise ==
    /\ pc \notin {"new", "idle"}
    /\ hist.failures < MaxFailures
    /\ Abort("backend")

Next ==
    \/ PostInit
    \/ \E b \in 1 .. MaxBatch : Train(b)
    \/ Unpack
    \/ ActorFwd
    \/ AlphaLoss
    \/ AlphaZeroGrad
    \/ AlphaBackward
    \/ AlphaStep
    \/ Sample
    \/ QLoss
    \/ QZeroGrad
    \/ QBackward
    \/ QStep
    \/ Freeze
    \/ PiLoss
    \/ PiZeroGrad
    \/ PiBackward
    \/ PiStep
    \/ Unfreeze
    \/ PolyakMulStep
    \/ PolyakAddStep
    \/ StoreLossPi
    \/ Ret
    \/ Raise

Spec == Init /\ [][Next]_vars

\* ----------------------------------------------------------------- claims
\* the statement (or loop) op completed in the current (or, between calls,
\* the last) train() call
Did(op) == op \in hist.done
Returned == pc = "idle" /\ ret # None
Raised == pc = "idle" /\ error # ""
\* every batch so far was well formed: the backend never raised
WellFormed == hist.failures = 0
Distinct(s) == \A i, j \in 1 .. Len(s) : i # j => s[i] # s[j]
Range(s) == {s[i] : i \in 1 .. Len(s)}

\* C1: after every completed train() call (SAC, REDQ on update and on
\* non-update calls) every target parameter is polyak * (its value at call
\* entry) + (1 - polyak) * (the live parameter after this call's optimizer
\* steps), within one unit of rounding; outside the polyak loop of a call
\* nothing writes the target; polyak = 1 leaves the target unchanged,
\* polyak = 0 copies the live value.
C1_TargetLag ==
    /\ (pc \notin {"new", "polyak"} /\ ~Did("polyak")
        /\ hist.failed_op # "polyak") =>
          model_target = hist.target_entry
    /\ Returned =>
        /\ \A j \in 0 .. cfg.n :
              LET exact2 == cfg.polyak * GetParam(hist.target_entry, j)
                            + (2 - cfg.polyak) * GetParam(model, j)
                  diff == 2 * GetParam(model_target, j) - exact2
              IN  diff \in (0 - 2) .. 2
        /\ (cfg.polyak = 2 => model_target = hist.target_entry)
        /\ (cfg.polyak = 0 => model_target = model)

C1_Witness ==
    /\ Returned
    /\ cfg.kind = "REDQ"
    /\ cfg.polyak = 1
    /\ i_update % cfg.q_updates_per_policy_update # 0
    /\ model_target # hist.target_entry
    /\ model_target # model

\* C2: REDQ with q_updates_per_policy_update = k: in every call on a
\* well-formed batch the critic optimizers step, and the actor optimizer
\* (and, when learned, the entropy optimizer) steps exactly in calls number
\* k, 2k, 3k, ...
C2_UtdGating ==
    (cfg.kind = "REDQ" /\ cfg.m <= cfg.n /\ WellFormed /\ pc = "idle"
     /\ hist.calls > 0) =>
        /\ Did("q_step")
        /\ Did("pi_step") <=>
              (hist.calls % cfg.q_updates_per_policy_update = 0)
        /\ cfg.learn_entropy_coef =>
              (Did("alpha_step") <=>
                  (hist.calls % cfg.q_updates_per_policy_update = 0))

\* C3: REDQ: a call that does not update the policy returns as loss_actor
\* the loss_actor returned by the most recent call that did, and never None
\* (also before the first policy update).
C3_LossActorCarriedOver ==
    (cfg.kind = "REDQ" /\ Returned
     /\ hist.calls % cfg.q_updates_per_policy_update # 0) =>
        /\ ret[1].loss_actor # None
        /\ hist.last_update_loss # None =>
              ret[1].loss_actor = hist.last_update_loss

C3_Witness ==
    /\ cfg.kind = "REDQ"
    /\ Returned
    /\ hist.calls % cfg.q_updates_per_policy_update # 0
    /\ hist.last_update_loss # None
    /\ ret[1].loss_actor = hist.last_update_loss
    /\ ret[1].loss_actor # Some(0)

\* C4: with a learned entropy coefficient every train() call on a
\* well-formed batch (SAC, REDQ in any UTD phase) returns a mapping with
\* the keys loss_actor, loss_critic, loss_entropy_coef and entropy_coef.
C4_LearnedEntropyKeys ==
    (cfg.learn_entropy_coef /\ cfg.m <= cfg.n /\ WellFormed /\ pc = "idle"
     /\ hist.calls > 0) =>
        /\ ret # None
        /\ DOMAIN ret[1] =
              {"loss_actor", "loss_critic", "loss_entropy_coef",
               "entropy_coef"}

\* C5: a REDQ agent with m > n is never constructed, and train() is never
\* the operation that rejects the ensemble parameters.
C5_InvalidEnsembleRejectedAtConstruction ==
    (cfg.kind = "REDQ" /\ cfg.m > cfg.n) =>
        (pc = "new" /\ error # "ValueError")

\* C6: REDQ with m <= n: the target critics of the Bellman backup are m
\* pairwise distinct indices of 0 .. n-1, drawn anew in every call in either
\* UTD phase, and every m-element subset of 0 .. n-1 can be drawn.
C6_SubsetSampling ==
    (cfg.kind = "REDQ" /\ cfg.m <= cfg.n) =>
        /\ pc = "q_loss" =>
              /\ Len(locals.sample_idxs) = cfg.m
              /\ Distinct(locals.sample_idxs)
              /\ Range(locals.sample_idxs) \subseteq 0 .. (cfg.n - 1)
        /\ pc = "sample" =>
              /\ locals.sample_idxs = << >>
              /\ \A S \in SUBSET (0 .. (cfg.n - 1)) :
                    Cardinality(S) = cfg.m =>
                       \E s \in [1 .. cfg.m -> 0 .. (cfg.n - 1)] :
                          Range(s) = S /\ ENABLED SampleWith(s)
        /\ (pc \in {"q_step", "polyak", "ret"}) =>
              (Did("sample") /\ Did("q_loss"))

C6_Witness ==
    /\ cfg.kind = "REDQ"
    /\ cfg.n = 2
    /\ cfg.m = 2
    /\ pc = "q_loss"
    /\ ~locals.update_policy
    /\ hist.calls > 1
    /\ locals.sample_idxs = << 1, 0 >>

\* C7: when a train() call raises in an operation before its polyak loop,
\* the target parameters are as at call entry, and the raising operation
\* leaves the live parameters and the entropy coefficient as they were.
C7_FailureKeepsTarget ==
    [][(pc' = "idle" /\ error' # ""
        /\ pc \notin {"polyak", "store_loss_pi", "ret"}) =>
          /\ model_target' = hist.target_entry
          /\ model' = model
          /\ log_alpha' = log_alpha
          /\ self_alpha_t' = self_alpha_t]_vars

C7_Witness ==
    /\ Raised
    /\ cfg.kind = "SAC"
    /\ cfg.polyak = 1
    /\ hist.failed_op = "pi_loss"
    /\ hist.calls > 1
    /\ Did("q_step")
    /\ model_target = hist.target_entry
    /\ model_target # model

\* C8 as claimed: in every call that updates the policy (SAC and REDQ) the
\* critic optimizer step precedes the evaluation of the actor loss.
C8_CriticStepBeforeActorLoss == Did("pi_loss") => Did("q_step")

\* C8 amended: in SAC the critic optimizer step precedes the evaluation of
\* the actor loss; in a REDQ call that updates the policy the actor loss is
\* evaluated and backpropagated before the critic optimizers step, and the
\* critic optimizers step before the actor optimizer.
C8_ActorLossOrdering ==
    /\ cfg.kind = "SAC" => (Did("pi_loss") => Did("q_step"))
    /\ cfg.kind = "REDQ" =>
          /\ ((Did("q_step") \/ pc = "q_step")
              /\ i_update % cfg.q_updates_per_policy_update = 0) =>
                 (Did("pi_loss") /\ Did("pi_backward"))
          /\ Did("pi_step") => Did("q_step")

C8_Witness ==
    /\ cfg.kind = "REDQ"
    /\ pc = "pi_step"
    /\ Did("pi_backward")
    /\ Did("q_step")
    /\ model.qs # hist.target_entry.qs

\* C9: the live critics track gradients whenever no train() call is
\* executing (after construction, after a return, after a call that raised);
\* inside a call they are frozen only between the critic backward pass and
\* the unfreeze, and the actor backward pass adds nothing to their .grad.
C9_CriticsTrainableBetweenCalls ==
    /\ pc \in {"new", "idle"} => \A i \in Critics : requires_grad[i]
    /\ (\E i \in Critics : ~requires_grad[i]) =>
          (Did("q_backward") /\ ~Did("unfreeze"))
    /\ (pc # "idle" /\ Did("pi_backward")) =>
          \A i \in Critics : grad.qs[i] = Some(GradQ(locals.batch, i))

\* C10: SAC with a learned coefficient: the entropy optimizer steps before
\* the critic and actor optimizers, alpha_t (used in the backup and the actor
\* loss and returned as entropy_coef) is exp(log_alpha at call entry), and
\* the critic and actor updates do not change log_alpha.
C10_EntropyLag ==
    /\ []((cfg.kind = "SAC" /\ cfg.learn_entropy_coef /\ pc # "new") =>
            /\ locals.alpha_t # None =>
                  locals.alpha_t[1] = Exp(hist.log_alpha_entry[1])
            /\ Returned =>
                  ret[1].entropy_coef = Exp(hist.log_alpha_entry[1])
            /\ (Did("q_step") \/ Did("pi_step")) => Did("alpha_step")
            /\ (hist.calls > 0 /\ ~Did("alpha_step")) =>
                  log_alpha = hist.log_alpha_entry)
    /\ [][(cfg.kind = "SAC" /\ pc \notin {"new", "alpha_step"})
          => log_alpha' = log_alpha]_vars

C10_Witness ==
    /\ cfg.kind = "SAC"
    /\ cfg.learn_entropy_coef
    /\ Returned
    /\ hist.calls > 1
    /\ ret[1].entropy_coef = Exp(hist.log_alpha_entry[1])
    /\ ret[1].entropy_coef # Exp(log_alpha[1])
====
